---- MODULE Spec2Model ----
(***************************************************************************)
(* Model of the Flow component graph runtime (pkg/flow/flow.go, node.go):  *)
(* Flow.Load builds the component graph from a configuration and invokes   *)
(* the builder for every node in dependency order; Flow.Run starts one     *)
(* worker per node and runs the refresh arbiter that updates the           *)
(* dependants of every node that notified a change of its exported state.  *)
(* The dag package and the nametable are not part of the sources at hand;  *)
(* their operations are modelled from their documented contracts.          *)
(***************************************************************************)
EXTENDS Integers, FiniteSets, Sequences, TLC

\* ------------------------------------------------------------- bounds
\* Total number of state publications (state write + notify) by all workers.
MaxPublish == 2

\* Largest number of diagnostics a conversion yields.
MaxDiags == 3

\* ------------------------------------------------------------- configurations
\* A traversal found in a block body: the component it names (root) and
\* whether the remaining steps name a field of that component's exports.
Trav(r) == [root |-> r, valid |-> TRUE]
BadTrav(r) == [root |-> r, valid |-> FALSE]

\* A block of the configuration file: its reference and its traversals.
Block(r, ts) == [ref |-> r, trav |-> ts]

ChainCfg == << Block("s", {}), Block("f", {Trav("s")}), Block("k", {Trav("f")}) >>
FanCfg == << Block("f", {Trav("s")}), Block("k", {Trav("s")}), Block("s", {}) >>
ShortcutCfg == << Block("a", {Trav("b"), Trav("d")}), Block("b", {Trav("d")}), Block("d", {}) >>
MutualCfg == << Block("x", {Trav("y")}), Block("y", {Trav("x")}) >>
SelfCfg == << Block("x", {Trav("x")}) >>
DupCfg == << Block("s", {}), Block("s", {}), Block("f", {Trav("s")}) >>
UnresolvedCfg == << Block("f", {Trav("zz"), Trav("s")}), Block("s", {}) >>
MistypedCfg == << Block("d", {}), Block("b", {BadTrav("d")}), Block("a", {Trav("b"), BadTrav("d"), Trav("zz")}) >>
EmptyCfg == << >>

Configs ==
    { ChainCfg, FanCfg, ShortcutCfg, MutualCfg, SelfCfg, DupCfg,
      UnresolvedCfg, MistypedCfg, EmptyCfg }

NoNode == 0

VARIABLES
    config,      \* the blocks of the configuration file
    parseOk,     \* whether reading, parsing and decoding the file succeed
    loadPc,      \* position of Flow.Load
    loadRet,     \* what Load returned: "none" (not yet), "nil" or an error kind
    nodes,       \* f.graph: the nodes (block indexes)
    edges,       \* f.graph: the edges <<from, to>>, from depends on to
    nametable,   \* f.nametable: set of <<ref, node>>
    raw,         \* componentNode.raw # nil, per block
    walked,      \* nodes WalkTopological has handed to the build callback
    loadDiags,   \* error diagnostics of the second pass: <<node, traversal>>
    lockW,       \* f.graphMut: the writer holding it ("none" when free)
    readers,     \* f.graphMut: number of read locks held (one handler: 0 or 1)
    runPc,       \* position of Flow.Run (the arbiter once the workers run)
    runRet,      \* what Run returned: "none" (not yet), "nil" or "error"
    iterated,    \* nodes the start loop of Run has gone through
    worker,      \* per block: "none", "running", "exited"
    npc,         \* per block: position of the worker in the notify callback
    state,       \* per block: version of the exported state (CurrentState)
    published,   \* number of publications so far (bounded by MaxPublish)
    updated,     \* the updated sync.Map: set of nodes
    refreshCh,   \* number of tokens in refreshCh (capacity 1)
    cancelled,   \* ctx.Done() is closed
    rangeStart,  \* keys of updated when the current Range call began
    visited,     \* keys the current Range call has visited
    cur,         \* the key the Range callback is handling
    todo,        \* dependants of cur still to be updated
    seen,        \* per block: the EvalContext of its last Update (dep -> version),
                 \* or NoContext where the EvalContext could not be built
    builds,      \* per block: number of invocations of the builder
    buildCtx,    \* per block: the nodes its EvalContext bound at build time
    nilRead,     \* CurrentState was read from a node whose raw is nil
    attempted,   \* dependants of cur the update loop has gone through
    called,      \* dependants of cur on which Update was called
    burstNodes,  \* nodes that notified since the arbiter went idle (kept
                 \* through the next drain cycle while that cycle is clean)
    burstCount,  \* number of notifications since the arbiter went idle
    cycleClean,  \* no notification overlapped the current drain cycle
    handled,     \* per block: Range callbacks completed in this drain cycle
    diags,       \* convert: the severities of the diagnostics of converter.Convert
    bypassErrors, \* convert: fc.bypassErrors (-b)
    output,      \* convert: fc.output (-o), "" when not given
    report,      \* convert: fc.report (-r), "" when not given
    convertPc,   \* convert: position of convert
    convertRet,  \* convert: what it returned: "none", "nil", "diags" or "err"
    stdoutWrites, \* convert: times the output bytes were copied to os.Stdout
    fileWrites,  \* convert: times the output bytes were copied to the -o file
    reportWrites \* convert: times the report was generated

vars ==
    << config, parseOk, loadPc, loadRet, nodes, edges, nametable, raw, walked,
       loadDiags, lockW, readers, runPc, runRet, iterated, worker, npc, state, published,
       updated, refreshCh, cancelled, rangeStart, visited, cur, todo, seen,
       builds, buildCtx, nilRead, attempted, called,
       burstNodes, burstCount, cycleClean, handled,
       diags, bypassErrors, output, report, convertPc, convertRet,
       stdoutWrites, fileWrites, reportWrites >>

convertVars ==
    << diags, bypassErrors, output, report, convertPc, convertRet,
       stdoutWrites, fileWrites, reportWrites >>

Blocks == 1 .. Len(config)

\* ------------------------------------------------------------- reference model
\* newComponentNode: the reference of the node made from block n.
Ref(n) == config[n].ref

\* ------------------------------------------------------------- dag engine
\* Graph.Add: insert n; fails (graph unchanged) when a node with an equal
\* identity is present.
GraphAdd(ns, n) ==
    IF \E m \in ns : Ref(m) = Ref(n) THEN ns ELSE ns \cup {n}

\* Pairs <<a, b>> such that a path of at least one edge leads from a to b.
RECURSIVE Closure(_, _)
Closure(E, R) ==
    LET R2 == R \cup { <<pq[1][1], pq[2][2]>> : pq \in { x \in R \X E : x[1][2] = x[2][1] } }
    IN  IF R2 = R THEN R ELSE Closure(E, R2)

Reachable(E, a, b) == <<a, b>> \in Closure(E, E)

\* Graph.AddEdge: insert from -> to; fails (graph unchanged) on a self-edge,
\* a missing endpoint, a duplicate, or when to already reaches from.
AddEdgeFails(ns, E, from, to) ==
    \/ from = to
    \/ from \notin ns
    \/ to \notin ns
    \/ <<from, to>> \in E
    \/ Reachable(E, to, from)

AddEdge(ns, E, from, to) ==
    IF AddEdgeFails(ns, E, from, to) THEN E ELSE E \cup { <<from, to>> }

Dependencies(E, n) == { e[2] : e \in { x \in E : x[1] = n } }

Dependants(E, n) == { e[1] : e \in { x \in E : x[2] = n } }

Leaves(ns, E) == { n \in ns : Dependencies(E, n) = {} }

\* dag.Reduce: drop every edge a -> c for which a path a -> ... -> c of two
\* or more edges exists.
Reduce(E) ==
    { e \in E : ~ \E m \in Dependencies(E, e[1]) : m # e[2] /\ Reachable(E, m, e[2]) }

\* dag.WalkTopological: the nodes the walk may hand to its callback next:
\* reachable from start, not yet visited, all their dependencies visited.
WalkReady(ns, E, start, done) ==
    { n \in ns \ done :
        /\ Dependencies(E, n) \subseteq done
        /\ \/ n \in start
           \/ \E s \in start : Reachable(E, n, s) }

\* The orders in which Graph.Nodes() may list the nodes.
Orders(S) ==
    { o \in [1 .. Cardinality(S) -> S] : \A i, j \in DOMAIN o : o[i] = o[j] => i = j }

\* ------------------------------------------------------------- nametable
\* nametable.Add: register n under its reference; fails on a duplicate.
NametableAdd(nt, n) ==
    IF \E p \in nt : p[1] = Ref(n) THEN nt ELSE nt \cup { <<Ref(n), n>> }

\* nametable.LookupTraversal: the target node (NoNode when no registered
\* reference is a prefix of t) and whether an error diagnostic is reported.
LookupTraversal(nt, t) ==
    IF \E p \in nt : p[1] = t.root
    THEN [target |-> (CHOOSE p \in nt : p[1] = t.root)[2], err |-> ~ t.valid]
    ELSE [target |-> NoNode, err |-> FALSE]

\* nametable.BuildEvalContext: binds every node of deps to its current
\* exported state.
BuildEvalContext(deps) == [ d \in deps |-> state[d] ]

\* The record kept for a node whose EvalContext could not be built.
NoContext(deps) == [ d \in deps |-> -1 ]

\* ------------------------------------------------------------- Load helpers
\* Load, first pass (the loop over content.Blocks): graph nodes and nametable
\* after the blocks i .. Len(config) were handled.
RECURSIVE InsertBlocks(_, _, _)
InsertBlocks(i, ns, nt) ==
    IF i > Len(config) THEN [nodes |-> ns, nametable |-> nt]
    ELSE InsertBlocks(i + 1, GraphAdd(ns, i), NametableAdd(nt, i))

\* Load, second pass, inner loop: the edges of component for its traversals.
RECURSIVE WireTraversals(_, _, _, _, _)
WireTraversals(ns, nt, E, component, ts) ==
    IF ts = {} THEN E
    ELSE LET t == CHOOSE x \in ts : TRUE
             target == LookupTraversal(nt, t).target
             E2 == IF target = NoNode THEN E ELSE AddEdge(ns, E, component, target)
         IN  WireTraversals(ns, nt, E2, component, ts \ {t})

\* Load, second pass, outer loop over the nodes in the order o.
RECURSIVE WireNodes(_, _, _, _, _)
WireNodes(ns, nt, E, o, i) ==
    IF i > Len(o) THEN E
    ELSE WireNodes(ns, nt, WireTraversals(ns, nt, E, o[i], config[o[i]].trav), o, i + 1)

\* Variant of WireDiags: the pass stops at the first error diagnostic.
WireDiagsFirst(ns, nt) ==
    LET all == { x \in UNION { { <<n, t>> : t \in config[n].trav } : n \in ns } :
                   LookupTraversal(nt, x[2]).err }
    IN  IF all = {} THEN {} ELSE { CHOOSE x \in all : TRUE }

\* Load, second pass: the error diagnostics the lookups of all traversals
\* of all nodes have added to diags.
WireDiags(ns, nt) ==
    { x \in UNION { { <<n, t>> : t \in config[n].trav } : n \in ns } :
        LookupTraversal(nt, x[2]).err }

\* Variant of WireHasErrors: a traversal that names no component counts as
\* an error.
WireHasErrorsStrict(ns, nt) ==
    \E n \in ns : \E t \in config[n].trav :
        LookupTraversal(nt, t).err \/ LookupTraversal(nt, t).target = NoNode

\* Load, second pass: diags.HasErrors() after all traversals were looked up.
WireHasErrors(ns, nt) == WireDiags(ns, nt) # {}

\* Variant of LockFree: a writer does not wait for the readers.
LockIgnoresReaders == lockW = "none"

\* f.graphMut is free: no writer and no reader holds it.
LockFree == lockW = "none" /\ readers = 0

\* A writer is blocked in f.graphMut.Lock(); sync.RWMutex then admits no new
\* reader.
WriterWaiting == loadPc = "locking" \/ runPc \in {"locking", "lock"}

\* ------------------------------------------------------------- initial state
\* flow.New: empty graph and nametable; nothing loaded, nothing running.
FlowInit ==
    /\ config \in Configs
    /\ parseOk \in BOOLEAN
    /\ loadPc = "idle"
    /\ loadRet = "none"
    /\ nodes = {}
    /\ edges = {}
    /\ nametable = {}
    /\ raw = [n \in Blocks |-> FALSE]
    /\ walked = {}
    /\ loadDiags = {}
    /\ lockW = "none"
    /\ readers = 0
    /\ runPc = "idle"
    /\ runRet = "none"
    /\ iterated = {}
    /\ worker = [n \in Blocks |-> "none"]
    /\ npc = [n \in Blocks |-> "idle"]
    /\ state = [n \in Blocks |-> 0]
    /\ published = 0
    /\ updated = {}
    /\ refreshCh = 0
    /\ cancelled = FALSE
    /\ rangeStart = {}
    /\ visited = {}
    /\ cur = NoNode
    /\ todo = {}
    /\ seen = [n \in Blocks |-> << >>]
    /\ builds = [n \in Blocks |-> 0]
    /\ buildCtx = [n \in Blocks |-> {}]
    /\ nilRead = FALSE
    /\ attempted = {}
    /\ called = {}
    /\ burstNodes = {}
    /\ burstCount = 0
    /\ cycleClean = FALSE
    /\ handled = [n \in Blocks |-> 0]

\* convert has not been invoked and has written nothing.
ConvertIdle ==
    /\ convertPc = "idle"
    /\ convertRet = "none"
    /\ stdoutWrites = 0
    /\ fileWrites = 0
    /\ reportWrites = 0

\* The Flow runtime of a process that does not run the convert command.
Init ==
    /\ FlowInit
    /\ diags = << >>
    /\ bypassErrors = FALSE
    /\ output = ""
    /\ report = ""
    /\ ConvertIdle

loadVars == << loadPc, loadRet, nodes, edges, nametable, raw, walked, loadDiags,
              builds, buildCtx >>
runVars == << runPc, runRet, iterated, rangeStart, visited, cur, todo, seen,
              attempted, called, handled >>
workerVars == << worker, npc, state, published >>
chanVars == << updated, refreshCh >>
burstVars == << burstNodes, burstCount, cycleClean >>

\* ------------------------------------------------------------- Load
\* A caller invokes Load; it blocks in f.graphMut.Lock().
LoadCall ==
    /\ loadPc = "idle"
    /\ loadPc' = "locking"
    /\ UNCHANGED << convertVars, config, parseOk, loadRet, nodes, edges, nametable, raw, walked,
                    loadDiags, builds, buildCtx, lockW, readers, cancelled, nilRead >>
    /\ UNCHANGED << runVars, workerVars, chanVars, burstVars >>

\* f.graphMut.Lock() in Load.
LoadLock ==
    /\ loadPc = "locking"
    /\ LockFree
    /\ lockW' = "load"
    /\ loadPc' = "parse"
    /\ UNCHANGED << convertVars, config, parseOk, loadRet, nodes, edges, nametable, raw, walked,
                    loadDiags, builds, buildCtx, readers, cancelled, nilRead >>
    /\ UNCHANGED << runVars, workerVars, chanVars, burstVars >>

\* Reading, parsing and decoding; on success the first pass inserts every
\* block into the graph and the nametable. An error returns (and unlocks).
LoadParse ==
    /\ loadPc = "parse"
    /\ IF parseOk
       THEN LET ins == InsertBlocks(1, nodes, nametable)
            IN  /\ nodes' = ins.nodes
                /\ nametable' = ins.nametable
                /\ loadPc' = "wire"
                /\ UNCHANGED << loadRet, lockW >>
       ELSE /\ loadPc' = "done"
            /\ loadRet' = "parse"
            /\ lockW' = "none"
            /\ UNCHANGED << nodes, nametable >>
    /\ UNCHANGED << convertVars, config, parseOk, edges, raw, walked, loadDiags, builds,
                    buildCtx, readers, cancelled, nilRead >>
    /\ UNCHANGED << runVars, workerVars, chanVars, burstVars >>

\* Second pass: every traversal of every node is looked up and its edge
\* added (the results of AddEdge are not used); error diagnostics return,
\* otherwise the graph is reduced.
LoadWire ==
    /\ loadPc = "wire"
    /\ \E o \in Orders(nodes) :
          LET wired == WireNodes(nodes, nametable, edges, o, 1)
          IN  IF WireHasErrors(nodes, nametable)
              THEN /\ edges' = wired
                   /\ loadDiags' = WireDiags(nodes, nametable)
                   /\ loadPc' = "done"
                   /\ loadRet' = "diags"
                   /\ lockW' = "none"
              ELSE /\ edges' = Reduce(wired)
                   /\ loadPc' = "build"
                   /\ UNCHANGED << loadRet, lockW, loadDiags >>
    /\ UNCHANGED << convertVars, config, parseOk, nodes, nametable, raw, walked, builds, buildCtx,
                    readers, cancelled, nilRead >>
    /\ UNCHANGED << runVars, workerVars, chanVars, burstVars >>

\* Variant of LoadWalkStart: the walk is started from the roots.
LoadWalkStartRoots == { n \in nodes : Dependants(edges, n) = {} }

\* The start set Load hands to WalkTopological.
LoadWalkStart == Leaves(nodes, edges)

\* Variant of LoadDirectDeps: the dependants are taken for the dependencies.
LoadDirectDepsReversed(cn) == Dependants(edges, cn)

\* The nodes whose current state the build callback binds for cn.
LoadDirectDeps(cn) == Dependencies(edges, cn)

\* Variant of AfterBuildError: the walk goes on after a failed node.
AfterBuildErrorContinue == "build"

\* Where Load goes when the build callback returns an error: WalkTopological
\* stops and Load returns.
AfterBuildError == "done"

\* componentNode.Set, as called by the build callback.
Set(cn) == [raw EXCEPT ![cn] = TRUE]

\* The callback of WalkTopological for node cn: build the EvalContext of its
\* direct dependencies, invoke the builder, assign the result. outcome is
\* what BuildEvalContext and BuildHCL answer; an error returns from Load.
LoadBuild(cn, outcome) ==
    /\ loadPc = "build"
    /\ cn \in WalkReady(nodes, edges, LoadWalkStart, walked)
    /\ walked' = walked \cup {cn}
    /\ buildCtx' = [buildCtx EXCEPT ![cn] = LoadDirectDeps(cn)]
    /\ nilRead' = (nilRead \/ \E d \in LoadDirectDeps(cn) : ~ raw[d])
    /\ \/ /\ outcome = "ectxError"
          /\ loadPc' = AfterBuildError
          /\ loadRet' = "build"
          /\ lockW' = "none"
          /\ UNCHANGED << raw, builds >>
       \/ /\ outcome = "buildError"
          /\ builds' = [builds EXCEPT ![cn] = @ + 1]
          /\ loadPc' = AfterBuildError
          /\ loadRet' = "build"
          /\ lockW' = "none"
          /\ UNCHANGED raw
       \/ /\ outcome = "ok"
          /\ builds' = [builds EXCEPT ![cn] = @ + 1]
          /\ raw' = Set(cn)
          /\ UNCHANGED << loadPc, loadRet, lockW >>
    /\ UNCHANGED << convertVars, config, parseOk, nodes, edges, nametable, loadDiags,
                    readers, cancelled >>
    /\ UNCHANGED << runVars, workerVars, chanVars, burstVars >>

\* The walk has no node left: Load returns nil (and unlocks).
LoadReturn ==
    /\ loadPc = "build"
    /\ WalkReady(nodes, edges, LoadWalkStart, walked) = {}
    /\ loadPc' = "done"
    /\ loadRet' = "nil"
    /\ lockW' = "none"
    /\ UNCHANGED << convertVars, config, parseOk, nodes, edges, nametable, raw, walked,
                    loadDiags, builds, buildCtx, readers, cancelled, nilRead >>
    /\ UNCHANGED << runVars, workerVars, chanVars, burstVars >>

\* ------------------------------------------------------------- Run: start
\* Capacity of refreshCh.
RefreshCap == 1

\* A caller invokes Run; it blocks in f.graphMut.Lock().
RunCall ==
    /\ runPc = "idle"
    /\ runPc' = "locking"
    /\ UNCHANGED << convertVars, config, parseOk, lockW, readers, cancelled, nilRead, runRet, iterated,
                    rangeStart, visited, cur, todo, seen, attempted, called, handled >>
    /\ UNCHANGED << loadVars, workerVars, chanVars, burstVars >>

\* f.graphMut.Lock() in Run.
RunLock ==
    /\ runPc = "locking"
    /\ LockFree
    /\ lockW' = "run"
    /\ runPc' = "start"
    /\ UNCHANGED << convertVars, config, parseOk, readers, cancelled, nilRead, runRet, iterated,
                    rangeStart, visited, cur, todo, seen, attempted, called, handled >>
    /\ UNCHANGED << loadVars, workerVars, chanVars, burstVars >>

\* Variant of RunReturnTo: Run returns without waiting for the workers.
RunReturnNoWait == "returned"

\* Where Run goes when it returns: the deferred wg.Wait().
RunReturnTo == "waiting"

\* One iteration of the start loop for node cn: an uninitialized node
\* returns an error (f.graphMut stays locked), otherwise its worker starts.
RunStart(cn) ==
    /\ runPc = "start"
    /\ cn \in nodes \ iterated
    /\ iterated' = iterated \cup {cn}
    /\ IF ~ raw[cn]
       THEN /\ runRet' = "error"
            /\ runPc' = RunReturnTo
            /\ UNCHANGED worker
       ELSE /\ worker' = [worker EXCEPT ![cn] = "running"]
            /\ UNCHANGED << runRet, runPc >>
    /\ UNCHANGED << convertVars, config, parseOk, lockW, readers, cancelled, nilRead,
                    rangeStart, visited, cur, todo, seen, attempted, called, handled,
                    npc, state, published >>
    /\ UNCHANGED << loadVars, chanVars, burstVars >>

\* The start loop is over: f.graphMut.Unlock(), enter the arbiter loop.
RunUnlock ==
    /\ runPc = "start"
    /\ iterated = nodes
    /\ lockW' = "none"
    /\ runPc' = "select"
    /\ UNCHANGED << convertVars, config, parseOk, readers, cancelled, nilRead, runRet, iterated,
                    rangeStart, visited, cur, todo, seen, attempted, called, handled >>
    /\ UNCHANGED << loadVars, workerVars, chanVars, burstVars >>

\* The deferred wg.Wait() is over: every started worker has exited.
RunWait ==
    /\ runPc = "waiting"
    /\ \A n \in Blocks : worker[n] # "running"
    /\ runPc' = "returned"
    /\ UNCHANGED << convertVars, config, parseOk, lockW, readers, cancelled, nilRead, runRet, iterated,
                    rangeStart, visited, cur, todo, seen, attempted, called, handled >>
    /\ UNCHANGED << loadVars, workerVars, chanVars, burstVars >>

\* ------------------------------------------------------------- workers
\* The component of cn has written a new exported state and calls notify;
\* the callback's first statement: updated.Store(cn, struct{}{}).
NotifyStore(cn) ==
    /\ worker[cn] = "running"
    /\ npc[cn] = "idle"
    /\ published < MaxPublish
    /\ state' = [state EXCEPT ![cn] = @ + 1]
    /\ published' = published + 1
    /\ updated' = updated \cup {cn}
    /\ npc' = [npc EXCEPT ![cn] = "stored"]
    /\ burstNodes' = IF runPc = "select" THEN burstNodes \cup {cn} ELSE {}
    /\ burstCount' = IF runPc = "select" THEN burstCount + 1 ELSE 0
    /\ cycleClean' = FALSE
    /\ UNCHANGED << convertVars, config, parseOk, lockW, readers, cancelled, nilRead, worker, refreshCh >>
    /\ UNCHANGED << loadVars, runVars >>

\* Variant of NotifySend: every notification queues a token of its own.
NotifySendEvery(cn) ==
    /\ worker[cn] = "running"
    /\ npc[cn] = "stored"
    /\ refreshCh' = refreshCh + 1
    /\ npc' = [npc EXCEPT ![cn] = "idle"]
    /\ cycleClean' = FALSE
    /\ burstNodes' = IF runPc = "select" THEN burstNodes ELSE {}
    /\ burstCount' = IF runPc = "select" THEN burstCount ELSE 0
    /\ UNCHANGED << convertVars, config, parseOk, lockW, readers, cancelled, nilRead, worker, state,
                    published, updated >>
    /\ UNCHANGED << loadVars, runVars >>

\* Variant of NotifySend: the send waits for room in refreshCh.
NotifySendBlocking(cn) ==
    /\ worker[cn] = "running"
    /\ npc[cn] = "stored"
    /\ refreshCh < RefreshCap
    /\ refreshCh' = refreshCh + 1
    /\ npc' = [npc EXCEPT ![cn] = "idle"]
    /\ cycleClean' = FALSE
    /\ burstNodes' = IF runPc = "select" THEN burstNodes ELSE {}
    /\ burstCount' = IF runPc = "select" THEN burstCount ELSE 0
    /\ UNCHANGED << convertVars, config, parseOk, lockW, readers, cancelled, nilRead, worker, state,
                    published, updated >>
    /\ UNCHANGED << loadVars, runVars >>

\* The notify callback, the select: send a token unless refreshCh is full.
NotifySend(cn) ==
    /\ worker[cn] = "running"
    /\ npc[cn] = "stored"
    /\ refreshCh' = IF refreshCh < RefreshCap THEN refreshCh + 1 ELSE refreshCh
    /\ npc' = [npc EXCEPT ![cn] = "idle"]
    /\ cycleClean' = FALSE
    /\ burstNodes' = IF runPc = "select" THEN burstNodes ELSE {}
    /\ burstCount' = IF runPc = "select" THEN burstCount ELSE 0
    /\ UNCHANGED << convertVars, config, parseOk, lockW, readers, cancelled, nilRead, worker, state,
                    published, updated >>
    /\ UNCHANGED << loadVars, runVars >>

\* cn.raw.Run returns, with an error (logged) or without.
WorkerExit(cn, err) ==
    /\ worker[cn] = "running"
    /\ npc[cn] = "idle"
    /\ worker' = [worker EXCEPT ![cn] = "exited"]
    /\ err \in BOOLEAN
    /\ UNCHANGED << convertVars, config, parseOk, lockW, readers, cancelled, nilRead, npc, state,
                    published >>
    /\ UNCHANGED << loadVars, runVars, chanVars, burstVars >>

\* The context handed to Run is cancelled.
Cancel ==
    /\ ~ cancelled
    /\ cancelled' = TRUE
    /\ UNCHANGED << convertVars, config, parseOk, lockW, readers, nilRead >>
    /\ UNCHANGED << loadVars, runVars, workerVars, chanVars, burstVars >>

\* ------------------------------------------------------------- arbiter
\* select, case <-ctx.Done(): return nil.
ArbCancel ==
    /\ runPc = "select"
    /\ cancelled
    /\ runRet' = "nil"
    /\ runPc' = RunReturnTo
    /\ UNCHANGED << convertVars, config, parseOk, lockW, readers, cancelled, nilRead, iterated,
                    rangeStart, visited, cur, todo, seen, attempted, called, handled >>
    /\ UNCHANGED << loadVars, workerVars, chanVars, burstVars >>

\* select, case <-refreshCh: a drain cycle (updated.Range) begins.
ArbRecv ==
    /\ runPc = "select"
    /\ refreshCh > 0
    /\ refreshCh' = refreshCh - 1
    /\ runPc' = "range"
    /\ rangeStart' = updated
    /\ visited' = {}
    /\ handled' = [n \in Blocks |-> 0]
    /\ cycleClean' = (\A n \in Blocks : npc[n] # "stored")
    /\ burstNodes' = IF cycleClean' THEN burstNodes ELSE {}
    /\ burstCount' = IF cycleClean' THEN burstCount ELSE 0
    /\ UNCHANGED << convertVars, config, parseOk, lockW, readers, cancelled, nilRead, runRet, iterated,
                    cur, todo, seen, attempted, called, updated >>
    /\ UNCHANGED << loadVars, workerVars >>

\* updated.Range hands the key cn to its callback; no key is visited twice.
RangeNext(cn) ==
    /\ runPc = "range"
    /\ cn \in updated \ visited
    /\ visited' = visited \cup {cn}
    /\ cur' = cn
    /\ runPc' = "lock"
    /\ UNCHANGED << convertVars, config, parseOk, lockW, readers, cancelled, nilRead, runRet, iterated,
                    rangeStart, todo, seen, attempted, called, handled >>
    /\ UNCHANGED << loadVars, workerVars, chanVars, burstVars >>

\* updated.Range returns: every key present since it began was visited
\* (a key stored meanwhile may have been missed).
RangeEnd ==
    /\ runPc = "range"
    /\ rangeStart \subseteq visited
    /\ runPc' = "select"
    /\ rangeStart' = {}
    /\ visited' = {}
    /\ handled' = [n \in Blocks |-> 0]
    /\ burstNodes' = {}
    /\ burstCount' = 0
    /\ cycleClean' = FALSE
    /\ UNCHANGED << convertVars, config, parseOk, lockW, readers, cancelled, nilRead, runRet, iterated,
                    cur, todo, seen, attempted, called >>
    /\ UNCHANGED << loadVars, workerVars, chanVars >>

\* Variant of ArbDependants: every node that reaches cn is updated.
ArbDependantsTransitive(cn) == { n \in nodes : Reachable(edges, n, cn) }

\* The nodes the Range callback updates for the key cn.
ArbDependants(cn) == Dependants(edges, cn)

\* The Range callback: f.graphMut.Lock(), then the dependants are listed.
ArbLock ==
    /\ runPc = "lock"
    /\ LockFree
    /\ lockW' = "arbiter"
    /\ todo' = ArbDependants(cur)
    /\ attempted' = {}
    /\ called' = {}
    /\ runPc' = "update"
    /\ UNCHANGED << convertVars, config, parseOk, readers, cancelled, nilRead, runRet, iterated,
                    rangeStart, visited, cur, seen, handled >>
    /\ UNCHANGED << loadVars, workerVars, chanVars, burstVars >>

\* Variant of AfterFailure: a failure ends the update loop.
AfterFailureBreak(cn) == {}

\* What is left of the update loop after the dependant cn failed: the loop
\* continues with the other dependants.
AfterFailure(cn) == todo \ {cn}

\* One iteration of the update loop, for the dependant cn: build the
\* EvalContext of its direct dependencies and call cn.raw.Update. outcome
\* is what BuildEvalContext and Update answer; errors are logged.
ArbUpdate(cn, outcome) ==
    /\ runPc = "update"
    /\ cn \in todo
    /\ attempted' = attempted \cup {cn}
    /\ nilRead' = (nilRead \/ ~ raw[cn] \/ \E d \in Dependencies(edges, cn) : ~ raw[d])
    /\ \/ /\ outcome = "ectxError"
          /\ seen' = [seen EXCEPT ![cn] = NoContext(Dependencies(edges, cn))]
          /\ todo' = AfterFailure(cn)
          /\ UNCHANGED called
       \/ /\ outcome = "updateError"
          /\ called' = called \cup {cn}
          /\ seen' = [seen EXCEPT ![cn] = BuildEvalContext(Dependencies(edges, cn))]
          /\ todo' = AfterFailure(cn)
       \/ /\ outcome = "ok"
          /\ called' = called \cup {cn}
          /\ seen' = [seen EXCEPT ![cn] = BuildEvalContext(Dependencies(edges, cn))]
          /\ todo' = todo \ {cn}
    /\ UNCHANGED << convertVars, config, parseOk, lockW, readers, cancelled, runRet, runPc, iterated,
                    rangeStart, visited, cur, handled >>
    /\ UNCHANGED << loadVars, workerVars, chanVars, burstVars >>

\* Variant of AfterDelete: the entry is left in the map.
AfterDeleteKeep(key) == updated

\* The map after the deferred updated.Delete(key).
AfterDelete(key) == updated \ {key}

\* The update loop is over and the callback returns true: its deferred
\* calls run, f.graphMut.Unlock() and then updated.Delete(key).
ArbReturn ==
    /\ runPc = "update"
    /\ todo = {}
    /\ lockW' = "none"
    /\ updated' = AfterDelete(cur)
    /\ handled' = [handled EXCEPT ![cur] = @ + 1]
    /\ cur' = NoNode
    /\ attempted' = {}
    /\ called' = {}
    /\ runPc' = "range"
    /\ UNCHANGED << convertVars, config, parseOk, readers, cancelled, nilRead, runRet, iterated,
                    rangeStart, visited, todo, seen, refreshCh >>
    /\ UNCHANGED << loadVars, workerVars, burstVars >>

\* ------------------------------------------------------------- handlers
\* GraphHandler / NametableHandler: f.graphMut.RLock().
HandlerRLock ==
    /\ readers = 0
    /\ lockW = "none"
    /\ ~ WriterWaiting
    /\ readers' = readers + 1
    /\ UNCHANGED << convertVars, config, parseOk, lockW, cancelled, nilRead >>
    /\ UNCHANGED << loadVars, runVars, workerVars, chanVars, burstVars >>

\* GraphHandler / NametableHandler: f.graphMut.RUnlock().
HandlerRUnlock ==
    /\ readers > 0
    /\ readers' = readers - 1
    /\ UNCHANGED << convertVars, config, parseOk, lockW, cancelled, nilRead >>
    /\ UNCHANGED << loadVars, runVars, workerVars, chanVars, burstVars >>

\* ------------------------------------------------------------- specification
Outcomes == {"ok", "ectxError", "buildError"}
UpdateOutcomes == {"ok", "ectxError", "updateError"}

Next ==
    \/ LoadCall
    \/ LoadLock
    \/ LoadParse
    \/ LoadWire
    \/ \E cn \in Blocks, outcome \in Outcomes : LoadBuild(cn, outcome)
    \/ LoadReturn
    \/ RunCall
    \/ RunLock
    \/ \E cn \in Blocks : RunStart(cn)
    \/ RunUnlock
    \/ RunWait
    \/ \E cn \in Blocks : NotifyStore(cn)
    \/ \E cn \in Blocks : NotifySend(cn)
    \/ \E cn \in Blocks, err \in BOOLEAN : WorkerExit(cn, err)
    \/ Cancel
    \/ ArbCancel
    \/ ArbRecv
    \/ \E cn \in Blocks : RangeNext(cn)
    \/ RangeEnd
    \/ ArbLock
    \/ \E cn \in Blocks, outcome \in UpdateOutcomes : ArbUpdate(cn, outcome)
    \/ ArbReturn
    \/ HandlerRLock
    \/ HandlerRUnlock

Spec == Init /\ [][Next]_vars

\* The steps of the goroutine that called Load, once it is in Load.
LoadStep ==
    \/ LoadLock
    \/ LoadParse
    \/ LoadWire
    \/ \E cn \in Blocks, outcome \in Outcomes : LoadBuild(cn, outcome)
    \/ LoadReturn

\* The steps of the goroutine that called Run, once it is in Run.
RunStep ==
    \/ RunLock
    \/ \E cn \in Blocks : RunStart(cn)
    \/ RunUnlock
    \/ RunWait
    \/ ArbCancel
    \/ ArbRecv
    \/ \E cn \in Blocks : RangeNext(cn)
    \/ RangeEnd
    \/ ArbLock
    \/ \E cn \in Blocks, outcome \in UpdateOutcomes : ArbUpdate(cn, outcome)
    \/ ArbReturn

\* The scheduler runs every goroutine that can take a step: Load and Run
\* proceed once called, a notify callback completes, a handler releases
\* its read lock. Whether Load or Run is called, whether a worker notifies
\* or exits and whether the context is cancelled is up to the environment.
Fairness ==
    /\ WF_vars(LoadStep)
    /\ WF_vars(RunStep)
    /\ WF_vars(\E cn \in Blocks : NotifySend(cn))
    /\ WF_vars(HandlerRUnlock)

\* The configurations the fair behaviours are checked on: those whose graph
\* has at most two nodes.
FairConfigs == { c \in Configs : Len(c) <= 2 } \cup { DupCfg }

FairInit == Init /\ config \in FairConfigs

FairSpec == FairInit /\ [][Next]_vars /\ Fairness

\* ------------------------------------------------------------- convert
Severities == {"warning", "error", "critical"}

\* The diagnostics converter.Convert may yield.
DiagSeqs == UNION { [1 .. n -> Severities] : n \in 0 .. MaxDiags }

\* hasErrorLevel: the loop over ds[i ..] looking for the severity sev.
RECURSIVE hasErrorLevelFrom(_, _, _)
hasErrorLevelFrom(ds, sev, i) ==
    IF i > Len(ds) THEN FALSE
    ELSE IF ds[i] = sev THEN TRUE
    ELSE hasErrorLevelFrom(ds, sev, i + 1)

hasErrorLevel(ds, sev) == hasErrorLevelFrom(ds, sev, 1)

\* Variant of ConvertSuppressed: the bypass flag is not consulted.
ConvertSuppressedNoBypass(hasCritical, hasError) == hasCritical \/ hasError

\* The condition under which convert returns diags instead of writing.
ConvertSuppressed(hasCritical, hasError) ==
    hasCritical \/ (~ bypassErrors /\ hasError)

\* io.ReadAll and parseExtraArgs; an error of either returns it.
ConvertRead(outcome) ==
    /\ convertPc = "idle"
    /\ IF outcome = "ok"
       THEN /\ convertPc' = "report"
            /\ UNCHANGED convertRet
       ELSE /\ convertPc' = "done"
            /\ convertRet' = "err"
    /\ UNCHANGED << diags, bypassErrors, output, report, stdoutWrites, fileWrites,
                    reportWrites >>
    /\ UNCHANGED << config, parseOk, lockW, readers, cancelled, nilRead >>
    /\ UNCHANGED << loadVars, runVars, workerVars, chanVars, burstVars >>

\* converter.Convert has answered; generateConvertReport: with -r the report
\* file is created and written, an error of which returns it.
ConvertReport(ok) ==
    /\ convertPc = "report"
    /\ IF report = ""
       THEN /\ convertPc' = "rule"
            /\ UNCHANGED << convertRet, reportWrites >>
       ELSE IF ok
       THEN /\ convertPc' = "rule"
            /\ reportWrites' = reportWrites + 1
            /\ UNCHANGED convertRet
       ELSE /\ convertPc' = "done"
            /\ convertRet' = "err"
            /\ UNCHANGED reportWrites
    /\ UNCHANGED << diags, bypassErrors, output, report, stdoutWrites, fileWrites >>
    /\ UNCHANGED << config, parseOk, lockW, readers, cancelled, nilRead >>
    /\ UNCHANGED << loadVars, runVars, workerVars, chanVars, burstVars >>

\* The output rule: return diags on a critical diagnostic, or on an error
\* diagnostic without -b.
ConvertRule ==
    /\ convertPc = "rule"
    /\ LET hasError == hasErrorLevel(diags, "error")
           hasCritical == hasErrorLevel(diags, "critical")
       IN  IF ConvertSuppressed(hasCritical, hasError)
           THEN /\ convertPc' = "done"
                /\ convertRet' = "diags"
           ELSE /\ convertPc' = "emit"
                /\ UNCHANGED convertRet
    /\ UNCHANGED << diags, bypassErrors, output, report, stdoutWrites, fileWrites,
                    reportWrites >>
    /\ UNCHANGED << config, parseOk, lockW, readers, cancelled, nilRead >>
    /\ UNCHANGED << loadVars, runVars, workerVars, chanVars, burstVars >>

\* The output bytes are copied to os.Stdout, or to the file os.Create made
\* for -o; outcome tells whether os.Create and io.Copy succeed.
ConvertEmit(outcome) ==
    /\ convertPc = "emit"
    /\ convertPc' = "done"
    /\ IF output = ""
       THEN /\ outcome \in {"ok", "copyError"}
            /\ stdoutWrites' = stdoutWrites + 1
            /\ convertRet' = IF outcome = "ok" THEN "nil" ELSE "err"
            /\ UNCHANGED fileWrites
       ELSE IF outcome = "createError"
       THEN /\ convertRet' = "err"
            /\ UNCHANGED << stdoutWrites, fileWrites >>
       ELSE /\ fileWrites' = fileWrites + 1
            /\ convertRet' = IF outcome = "ok" THEN "nil" ELSE "err"
            /\ UNCHANGED stdoutWrites
    /\ UNCHANGED << diags, bypassErrors, output, report, reportWrites >>
    /\ UNCHANGED << config, parseOk, lockW, readers, cancelled, nilRead >>
    /\ UNCHANGED << loadVars, runVars, workerVars, chanVars, burstVars >>

ReadOutcomes == {"ok", "readError", "argsError"}
EmitOutcomes == {"ok", "createError", "copyError"}

\* One invocation of the convert command, for every result of the converter
\* and every setting of the flags; no Flow runtime exists in that process.
ConvertInit ==
    /\ FlowInit
    /\ config = EmptyCfg
    /\ parseOk
    /\ diags \in DiagSeqs
    /\ bypassErrors \in BOOLEAN
    /\ output \in {"", "out.river"}
    /\ report \in {"", "report.txt"}
    /\ ConvertIdle

ConvertNext ==
    \/ \E outcome \in ReadOutcomes : ConvertRead(outcome)
    \/ \E ok \in BOOLEAN : ConvertReport(ok)
    \/ ConvertRule
    \/ \E outcome \in EmitOutcomes : ConvertEmit(outcome)

ConvertSpec == ConvertInit /\ [][ConvertNext]_vars

\* ------------------------------------------------------------- properties
\* The arbiter is blocked in its select with nothing pending and no notify
\* callback in progress.
Quiescent ==
    /\ runPc = "select"
    /\ ~ cancelled
    /\ refreshCh = 0
    /\ \A n \in Blocks : npc[n] = "idle"

\* C1. Dependant fan-out: once nothing is pending any more, every dependant
\* d of a node x that notified has received an Update whose EvalContext read
\* a state of x at least as recent as the one x notified (dependants whose
\* last EvalContext could not be built are left aside).
C1_FanOut ==
    Quiescent =>
        \A x \in nodes : state[x] > 0 =>
            \A d \in Dependants(edges, x) :
                seen[d] # NoContext(Dependencies(edges, d)) =>
                    /\ x \in DOMAIN seen[d]
                    /\ seen[d][x] >= state[x]

\* C2. When Run finds an uninitialized node and returns its error, it has
\* started no worker.
C2_NoWorkerWhenUninitialized ==
    runRet = "error" => \A n \in Blocks : worker[n] = "none"

\* C3. Join barrier: when Run has returned no worker it started is still
\* running; and if the context is cancelled and the workers have exited
\* for good, Run (once called) eventually returns.
C3_JoinBarrier ==
    /\ [](runPc = "returned" => \A n \in Blocks : worker[n] # "running")
    /\ (<>[](cancelled /\ runPc # "idle" /\ \A n \in Blocks : worker[n] # "running"))
          => <>(runPc = "returned")

C3_Witness ==
    /\ runPc = "returned"
    /\ cancelled
    /\ runRet = "nil"
    /\ Cardinality({ n \in Blocks : worker[n] = "exited" }) >= 2

\* C4. Single builder per node: when Load has returned nil, the builder was
\* invoked exactly once for every node of the graph and every raw is set.
C4_SingleBuilder ==
    loadRet = "nil" => \A n \in nodes : builds[n] = 1 /\ raw[n]

C4_Witness ==
    /\ loadRet = "nil"
    /\ config = MutualCfg
    /\ Cardinality(nodes) = 2

\* C5. Topological build order: a node is handed to the builder only when
\* raw is assigned for every node it depends on, its EvalContext reads only
\* nodes whose raw is assigned (no CurrentState on a nil raw), and the chain
\* k -> f -> s is wired as f -> s, k -> f and so built s, then f, then k.
C5_TopologicalBuild ==
    /\ ~ nilRead
    /\ \A n \in walked : \A d \in Dependencies(edges, n) \cup buildCtx[n] : raw[d]
    /\ (config = ChainCfg /\ loadPc \in {"build", "done"} /\ parseOk) =>
          /\ edges = { <<2, 1>>, <<3, 2>> }
          /\ raw[3] => raw[2]
          /\ raw[2] => raw[1]

C5_Witness ==
    /\ config = ChainCfg
    /\ loadPc = "build"
    /\ walked = {1, 2, 3}
    /\ raw[3]

\* C6. Cycle detection aborts Load: for a configuration with a self-reference
\* or a mutual reference, Load returns an error and invokes no builder.
C6_CycleAbortsLoad ==
    (config \in {MutualCfg, SelfCfg} /\ parseOk /\ loadPc = "done") =>
        /\ loadRet # "nil"
        /\ \A n \in Blocks : builds[n] = 0

\* C7. Duplicate components abort Load: for a configuration declaring the
\* same reference twice, Load returns an error and the reference names a
\* single node of the nametable.
C7_DuplicateAbortsLoad ==
    (config = DupCfg /\ parseOk /\ loadPc = "done") =>
        /\ loadRet # "nil"
        /\ Cardinality({ p \in nametable : p[1] = "s" }) <= 1

\* C8 as stated: when the arbiter is done with an updated node, Update was
\* called on exactly its direct dependants.
C8_UpdateExactlyDependants ==
    (runPc = "update" /\ todo = {}) => called = Dependants(edges, cur)

\* C8 as amended. Direct dependants only: while the arbiter handles an
\* updated node, Update is called only on direct dependants of that node,
\* never on the node itself or on a transitive dependant; when it is done,
\* it has gone through every direct dependant and called Update on those
\* whose EvalContext could be built; and a node was updated only after one
\* of its direct dependencies notified (chain: k only after f notified).
C8_DirectDependantsOnly ==
    /\ runPc = "update" =>
          /\ called \subseteq attempted
          /\ attempted \subseteq Dependants(edges, cur)
          /\ todo \subseteq Dependants(edges, cur)
          /\ cur \notin called
          /\ state[cur] > 0
    /\ (runPc = "update" /\ todo = {}) =>
          /\ attempted = Dependants(edges, cur)
          /\ \A d \in attempted \ called :
                seen[d] = NoContext(Dependencies(edges, d))
    /\ \A d \in Blocks :
          seen[d] # << >> => \E x \in Dependencies(edges, d) : state[x] > 0

C8_Witness ==
    /\ config = ChainCfg
    /\ runPc = "update"
    /\ cur = 2
    /\ called = {3}
    /\ seen[2] # << >>

\* C9. Coalescing: a burst of notifications issued while the arbiter is
\* idle leaves one token and every node of the burst in the updated set;
\* the drain cycle that follows handles every node it found in the set
\* exactly once and no node twice; and when no notification overlapped that
\* cycle, no token and no entry is left that would start another cycle.
C9_Coalescing ==
    /\ refreshCh <= RefreshCap
    /\ \A n \in Blocks : handled[n] <= 1
    /\ runPc = "select" =>
          /\ burstNodes \subseteq updated
          /\ (burstCount > 0 /\ \A n \in Blocks : npc[n] = "idle") => refreshCh = 1
    /\ (runPc = "range" /\ rangeStart \subseteq visited) =>
          \A n \in rangeStart : handled[n] = 1
    /\ (runPc = "range" /\ cycleClean /\ rangeStart \subseteq visited) =>
          /\ burstNodes \subseteq rangeStart
          /\ refreshCh = 0
          /\ updated = {}

C9_Witness ==
    /\ runPc = "range"
    /\ cycleClean
    /\ rangeStart \subseteq visited
    /\ burstCount >= 2
    /\ Cardinality(burstNodes) = 2

\* C10. Runtime errors are not fatal: Run leaves its loop only on
\* cancellation and then returns nil, also after workers have returned; a
\* failed EvalContext build or Update leaves the remaining dependants in the
\* update loop, which ends only when every dependant was gone through; and
\* the keys still to be visited stay in the updated set.
C10_ErrorsNotFatal ==
    /\ runPc \in {"waiting", "returned"} =>
          \/ runRet = "nil" /\ cancelled
          \/ runRet = "error" /\ \E n \in nodes : ~ raw[n]
    /\ runPc = "update" => todo = Dependants(edges, cur) \ attempted
    /\ (runPc = "update" /\ todo = {}) => attempted = Dependants(edges, cur)
    /\ runPc \in {"range", "lock", "update"} => rangeStart \ visited \subseteq updated

C10_Witness ==
    /\ config = FanCfg
    /\ runPc = "update"
    /\ ~ cancelled
    /\ attempted \ called # {}
    /\ called # {}
    /\ todo = {}
    /\ \E n \in Blocks : worker[n] = "exited"
    /\ \E n \in Blocks : worker[n] = "running"

\* A critical diagnostic is present, or an error diagnostic is present and
\* the bypass flag is not set.
C11_Suppress ==
    \/ \E i \in DOMAIN diags : diags[i] = "critical"
    \/ ~ bypassErrors /\ \E i \in DOMAIN diags : diags[i] = "error"

\* The output bytes were written exactly once, to the -o path when given
\* and to standard output when not.
C11_WrittenOnce ==
    IF output = ""
    THEN stdoutWrites = 1 /\ fileWrites = 0
    ELSE stdoutWrites = 0 /\ fileWrites = 1

\* C11 as stated: whenever convert has returned, it has emitted no output
\* and returned the diagnostics if and only if a critical diagnostic is
\* present or an error diagnostic is present without bypass; otherwise the
\* output bytes were written exactly once, to the right destination.
C11_ConvertOutputRule ==
    convertPc = "done" =>
        /\ (stdoutWrites = 0 /\ fileWrites = 0 /\ convertRet = "diags") <=> C11_Suppress
        /\ ~ C11_Suppress => C11_WrittenOnce

\* C11 as amended. Convert output rule: whenever convert has returned without
\* an I/O error (reading the input, parsing the extra arguments, writing the
\* report, creating or writing the output), it has emitted no output and
\* returned the diagnostics if and only if a critical diagnostic is present
\* or an error diagnostic is present without bypass, and otherwise it has
\* written the output bytes exactly once, to the -o path when given and to
\* standard output when not, and returned nil; with or without an I/O
\* error, nothing is emitted when the rule suppresses the output, nothing is
\* emitted twice or to the other destination, and the diagnostics are
\* returned only when the rule suppresses the output.
C11_ConvertOutputRuleIO ==
    /\ stdoutWrites + fileWrites <= 1
    /\ output = "" => fileWrites = 0
    /\ output # "" => stdoutWrites = 0
    /\ C11_Suppress => stdoutWrites = 0 /\ fileWrites = 0
    /\ convertRet = "diags" => C11_Suppress
    /\ (convertPc = "done" /\ convertRet # "err") =>
          /\ (stdoutWrites = 0 /\ fileWrites = 0 /\ convertRet = "diags") <=> C11_Suppress
          /\ ~ C11_Suppress => C11_WrittenOnce /\ convertRet = "nil"

C11_Witness ==
    /\ convertPc = "done"
    /\ convertRet = "nil"
    /\ bypassErrors
    /\ \E i \in DOMAIN diags : diags[i] = "error"
    /\ output # ""
    /\ fileWrites = 1
    /\ reportWrites = 1

\* C12. Unresolved reference is silent: every edge of the graph comes from a
\* traversal that the nametable resolved and every error diagnostic of the
\* second pass from a resolved traversal; once the second pass is over, every
\* resolved traversal of every node is wired (its edge, or after the
\* reduction a path, joins the node and the target; for a rejected cycle the
\* opposite path) whatever unresolved traversals stand beside it; and the
\* configuration f { zz, s }, s {} is loaded with the edge f -> s and without
\* diagnostics.
C12_UnresolvedSilent ==
    /\ \A e \in edges :
          \E t \in config[e[1]].trav : LookupTraversal(nametable, t).target = e[2]
    /\ \A x \in loadDiags : \E p \in nametable : p[1] = x[2].root
    /\ (parseOk /\ loadPc \in {"build", "done"}) =>
          /\ \A n \in nodes : \A t \in config[n].trav :
                LET m == LookupTraversal(nametable, t).target
                IN  (m # NoNode /\ m # n) =>
                        Reachable(edges, n, m) \/ Reachable(edges, m, n)
          /\ config = UnresolvedCfg =>
                /\ loadRet \in {"none", "nil", "build"}
                /\ loadDiags = {}
                /\ edges = { <<1, 2>> }

C12_Witness ==
    /\ config = UnresolvedCfg
    /\ loadRet = "nil"
    /\ edges = { <<1, 2>> }
    /\ raw[1]

\* C13. Load aborts on error diagnostics before building: after a parse or
\* decode error the graph and the nametable are empty; after error
\* diagnostics of the second pass Load has returned them all (one for every
\* mistyped traversal of every node), the graph holds the edges of all
\* resolved traversals, unreduced; in both cases no builder was invoked and
\* every raw is nil. For d {}, b { d.bad }, a { b, d.bad, zz } both
\* diagnostics are returned and the redundant edge a -> d is still there.
C13_AbortBeforeBuild ==
    /\ loadRet = "parse" => nodes = {} /\ nametable = {} /\ edges = {}
    /\ loadRet \in {"parse", "diags"} =>
          /\ loadPc = "done"
          /\ walked = {}
          /\ \A n \in Blocks : builds[n] = 0 /\ ~ raw[n]
    /\ loadRet = "diags" =>
          /\ loadDiags # {}
          /\ \A n \in nodes : \A t \in config[n].trav :
                <<n, t>> \in loadDiags <=>
                    (~ t.valid /\ \E p \in nametable : p[1] = t.root)
          /\ \A n \in nodes : \A t \in config[n].trav :
                LET m == LookupTraversal(nametable, t).target
                IN  (m # NoNode /\ m # n) => <<n, m>> \in edges \/ Reachable(edges, m, n)
    /\ loadRet # "diags" => loadDiags = {}
    /\ (config = MistypedCfg /\ parseOk /\ loadPc \in {"build", "done"}) =>
          /\ loadRet = "diags"
          /\ Cardinality(loadDiags) = 2
          /\ edges = { <<2, 1>>, <<3, 2>>, <<3, 1>> }

C13_Witness ==
    /\ config = MistypedCfg
    /\ loadRet = "diags"
    /\ Cardinality(loadDiags) = 2
    /\ <<3, 1>> \in edges
    /\ lockW = "none"

\* C14. Builder error aborts Load: when the EvalContext construction or the
\* builder has failed for a node, Load has returned that error; the failing
\* node is the only node handed to the build callback whose raw is nil; the
\* builder was invoked once for every node built before it and for no node
\* after it.
C14_BuilderErrorAborts ==
    loadRet = "build" =>
        /\ loadPc = "done"
        /\ Cardinality({ n \in walked : ~ raw[n] }) = 1
        /\ \A n \in Blocks : raw[n] => n \in walked /\ builds[n] = 1
        /\ \A n \in walked : builds[n] <= 1
        /\ \A n \in Blocks \ walked : builds[n] = 0

C14_Witness ==
    /\ config = ChainCfg
    /\ loadRet = "build"
    /\ walked = {1, 2}
    /\ raw[1]
    /\ ~ raw[2]
    /\ builds[2] = 1
    /\ builds[3] = 0

\* Load is between its Lock and its return.
C15_InLoad == loadPc \in {"parse", "wire", "build"}

\* C15. Single-writer lock discipline: Load from parsing to its return, the
\* start loop of Run and the arbiter's update loop each run with the graph
\* write lock held by them; no read lock is held while the write lock is;
\* Load never overlaps the start loop or an update; and every step that
\* changes the graph, the nametable or a raw, or reads CurrentState for an
\* EvalContext (a build or an Update), is taken by the holder of the write
\* lock.
C15_SingleWriter ==
    /\ [](C15_InLoad => lockW = "load")
    /\ [](runPc = "start" => lockW = "run")
    /\ [](runPc = "update" => lockW = "arbiter")
    /\ [](lockW # "none" => readers = 0)
    /\ [](~ (C15_InLoad /\ runPc \in {"start", "update"}))
    /\ [][ (nodes' # nodes \/ edges' # edges \/ nametable' # nametable
              \/ raw' # raw \/ builds' # builds \/ buildCtx' # buildCtx)
           => (lockW = "load" /\ readers = 0 /\ runPc \notin {"start", "update"}) ]_vars
    /\ [][ (seen' # seen \/ called' # called \/ attempted' # attempted)
           => (lockW = "arbiter" /\ readers = 0 /\ ~ C15_InLoad) ]_vars

C15_Witness ==
    /\ runPc = "update"
    /\ lockW = "arbiter"
    /\ called # {}
    /\ loadRet = "nil"
    /\ \E n \in Blocks : raw[n] /\ seen[n] # << >>

\* C16. The notification callback never blocks: refreshCh never holds more
\* than one token; a worker that has recorded itself in the updated set can
\* always take the send step, and a running worker can always begin a
\* notification, whoever holds the graph lock and whether or not a token is
\* pending.
C16_NotifyNeverBlocks ==
    /\ refreshCh <= RefreshCap
    /\ \A cn \in Blocks : npc[cn] = "stored" => ENABLED NotifySend(cn)
    /\ \A cn \in Blocks :
          (worker[cn] = "running" /\ npc[cn] = "idle" /\ published < MaxPublish)
              => ENABLED NotifyStore(cn)

C16_Witness ==
    /\ runPc = "update"
    /\ lockW = "arbiter"
    /\ refreshCh = RefreshCap
    /\ published = MaxPublish
    /\ \A cn \in Blocks : npc[cn] = "idle"

\* C17. On cancellation the arbiter returns immediately: once the context is
\* cancelled, the arbiter in its select starts no drain cycle, also when a
\* token is pending.
C17_NoDrainAfterCancel ==
    [][ (cancelled /\ runPc = "select") => runPc' # "range" ]_vars

\* C18. The graph lock is released on every return path: when Load has
\* returned it does not hold the write lock, and when Run has returned
\* neither its start loop nor the arbiter holds it.
C18_LockReleased ==
    /\ loadPc = "done" => lockW # "load"
    /\ runPc = "returned" => lockW \notin {"run", "arbiter"}

\* The configurations without duplicate, cyclic or mistyped references.
C19_ValidConfig == config \in {ChainCfg, FanCfg, ShortcutCfg, UnresolvedCfg, EmptyCfg}

\* C19. EvalContext completeness: for a valid configuration, the EvalContext
\* built for a node at Load and at every Update binds every component that a
\* traversal of the node resolved to.
C19_EvalContextComplete ==
    C19_ValidConfig =>
        \A n \in nodes : \A t \in config[n].trav :
            LET m == LookupTraversal(nametable, t).target
            IN  m # NoNode =>
                    /\ n \in walked => m \in buildCtx[n]
                    /\ seen[n] # << >> => m \in DOMAIN seen[n]

\* C20. No stranded entries: while the updated set is not empty a token is
\* pending, a notify callback is in flight or a drain is running, so the set
\* is empty whenever the arbiter is blocked in its select with nothing
\* pending; and an entry leaves the set only when the arbiter, having gone
\* through all dependants of that node, returns from its callback for it.
C20_NoStrandedEntries ==
    /\ [](updated # {} =>
            \/ refreshCh > 0
            \/ \E n \in Blocks : npc[n] = "stored"
            \/ runPc \in {"range", "lock", "update"})
    /\ [](Quiescent => updated = {})
    /\ [][ \A n \in updated \ updated' :
              /\ runPc = "update"
              /\ cur = n
              /\ todo = {}
              /\ attempted = Dependants(edges, n) ]_vars

C20_Witness ==
    /\ Quiescent
    /\ updated = {}
    /\ published = MaxPublish
    /\ Cardinality({ n \in Blocks : state[n] > 0 }) = 2
    /\ \E n \in Blocks : seen[n] # << >>

====
